---------------------------- MODULE Spec2Model ----------------------------
(***************************************************************************)
(* State-machine model of the WebSocket chat gateway of ocs-agent.         *)
(*                                                                         *)
(* The repository holds two deployment variants of one handler:            *)
(* src/index.js and src/unnamed/part_000.  They differ in the frames sent  *)
(* at connection time and at loop entry and in log statements; the model   *)
(* carries the variant as a variable fixed in Init.                        *)
(*                                                                         *)
(* One step of the model is one run of JavaScript between two suspension   *)
(* points of the single-threaded event loop: an event listener runs from   *)
(* its start to its first pending `await fetch(...)`, and a resumed        *)
(* listener runs from the settled fetch to the next one or to its end.     *)
(* The awaits of response.text()/response.json() follow a fetch without    *)
(* any write to shared state in between and are folded into the fetch.     *)
(***************************************************************************)
EXTENDS Integers, Sequences, FiniteSets, TLC

VARIABLES
    variant,        \* which source file is deployed
    conn,           \* conn[s]: state of the WebSocket of connection s
    conversations,  \* Map conversationId -> reference of a message array
    processing,     \* Map conversationId -> boolean
    arrays,         \* arrays[s]: content of the array allocated for s
    runs,           \* runs[s][r]: an invocation of the message listener
    out,            \* what the last step did on the wire
    env             \* what the environment may still do (bounds), and the
                    \* frames the client got in the turn (if it keeps a log)

vars == <<variant, conn, conversations, processing, arrays, runs, out, env>>

-----------------------------------------------------------------------------
(* Bounds of the model *)

\* inbound frames the clients send in a behaviour
MaxFrames == 3
\* tool calls of arbitrary shape the completion backend returns in a behaviour
MaxToolCalls == 1
\* data-access requests that fail in a behaviour
MaxSqlFailures == 1
\* tool calls in one assistant turn
MaxBatch == 2
\* listener invocations of one connection suspended at the same time
MaxRuns == 2
\* fragments concatenated into a query string
MaxFrags == 2
\* inbound frames the client sends in a behaviour that reaches the ceiling
MaxCeilingFrames == 2

\* inbound frames, and tool calls of arbitrary shape, in a behaviour with
\* assistant turns of several tool calls
MaxBatchFrames == 1
MaxBatchCalls == 2

\* inbound frames, and standard turns the backend returns, in a behaviour
\* whose frames the client logs
MaxScenarioFrames == 2
MaxScenarioTurns == 2

\* inbound frames, and standard turns the backend returns, in a behaviour
\* with two connections
MaxTwoFrames == 2
MaxTwoTurns == 1

\* inbound frames, and tool calls of arbitrary shape, in a behaviour with
\* one turn that may reach the ceiling
MaxTerminalFrames == 1
MaxTerminalCalls == 1

\* the conversation ids, in the order generateUuid returns them
SessionOrder == <<"s1", "s2">>
Sessions == { SessionOrder[i] : i \in 1..Len(SessionOrder) }
RunIds == 1..MaxRuns
Variants == {"index.js", "part_000"}

-----------------------------------------------------------------------------
(* Strings as sequences of characters *)

LowerLetters == <<"a", "c", "d", "e", "i", "l", "n", "o", "p", "r", "s", "t", "u">>
UpperLetters == <<"A", "C", "D", "E", "I", "L", "N", "O", "P", "R", "S", "T", "U">>

\* String.prototype.toUpperCase on one character
UpperChar(c) ==
    IF \E i \in 1..Len(LowerLetters) : LowerLetters[i] = c
    THEN UpperLetters[CHOOSE i \in 1..Len(LowerLetters) : LowerLetters[i] = c]
    ELSE c

toUpperCase(str) == [i \in 1..Len(str) |-> UpperChar(str[i])]

\* String.prototype.includes
includes(str, sub) ==
    \E i \in 0..(Len(str) - Len(sub)) : SubSeq(str, i + 1, i + Len(sub)) = sub

SELECT == <<"S", "E", "L", "E", "C", "T">>
INSERT == <<"I", "N", "S", "E", "R", "T">>
UPDATE == <<"U", "P", "D", "A", "T", "E">>
DELETE == <<"D", "E", "L", "E", "T", "E">>

Fragments ==
    { <<"s", "e", "l", "e", "c", "t">>,
      <<"S", "E", "L", "E", "C", "T">>,
      <<"S", "e", "L">>,
      <<"e", "C", "t">>,
      <<"I", "n", "s", "e", "r", "t">>,
      <<"U", "P", "D", "A", "T", "E">>,
      <<"d", "e", "l", "e", "t", "e">>,
      <<"d", "r", "o", "p">>,
      <<"i", "n", "s", "e", "r">>,
      <<" ">> }

RECURSIVE Concat(_)
Concat(fs) == IF fs = <<>> THEN <<>> ELSE Head(fs) \o Concat(Tail(fs))

FragSeqs == UNION { [1..n -> Fragments] : n \in 0..MaxFrags }

\* the query strings the router is applied to
Queries == { Concat(fs) : fs \in FragSeqs }

QSelect == <<"s", "e", "l", "e", "c", "t">>
QInsert == <<"I", "n", "s", "e", "r", "t">>
QInsertSelect == <<"I", "n", "s", "e", "r", "t", " ", "s", "e", "l", "e", "c", "t">>
QDrop == <<"d", "r", "o", "p">>

\* the query strings carried by tool calls
ToolQueries == {QSelect, QInsert, QInsertSelect, QDrop}

-----------------------------------------------------------------------------
(* callSqlApi: choice of the endpoint *)

\* "query" is api/sql/query, "mutate" is api/sql/mutate, "invalid" is the
\* early return of { error: "Invalid query type" } without a fetch
callSqlApiUrl(query) ==
    LET upperQuery == toUpperCase(query) IN
    IF includes(upperQuery, SELECT) THEN "query"
    ELSE IF \/ includes(upperQuery, INSERT)
            \/ includes(upperQuery, UPDATE)
            \/ includes(upperQuery, DELETE)
         THEN "mutate"
         ELSE "invalid"

-----------------------------------------------------------------------------
(* Values *)

\* program constant: const maxIterations = 10
maxIterations == 10

Message(role, content, tool_calls, tool_call_id) ==
    [role |-> role, content |-> content,
     tool_calls |-> tool_calls, tool_call_id |-> tool_call_id]

SystemMessage == Message("system", "SYSTEM_PROMPT", <<>>, "")
UserMessage(text) == Message("user", text, <<>>, "")
\* an assistant message as the backend returned it; of its tool calls the
\* history keeps the ids here (the code keeps the whole object)
AssistantMessage(content, calls) ==
    Message("assistant", content, [i \in 1..Len(calls) |-> calls[i].id], "")
ToolMessage(id, content) == Message("tool", content, <<>>, id)
\* choices[0].message absent: the value pushed is undefined
UndefinedMessage == Message("undefined", "", <<>>, "")

ErrorFrame(text) == [field |-> "error", text |-> text]
ProgressFrame(text) == [field |-> "progress", text |-> text]
ResponseFrame(text) == [field |-> "response", text |-> text]

Greeting == ErrorFrame("Xin chao...")
NoMessageError == ErrorFrame("No message content provided.")
BusyError == ErrorFrame("Processing previous message, please wait.")
OuterError == ErrorFrame("Error: ...")
InvalidArgsError == ErrorFrame("Invalid tool call arguments.")
MissingQueryError == ErrorFrame("Missing query parameter.")
QueryPolicyError == ErrorFrame("run_sql_query is only for SELECT queries.")
MutationPolicyError ==
    ErrorFrame("run_sql_mutation is only for INSERT, UPDATE, DELETE queries.")
UnknownFunctionError == ErrorFrame("Unknown function: ...")
DeepSeekError == ErrorFrame("DeepSeek API error: ...")
MaxIterationsError == ErrorFrame("Reached maximum function call limit.")

\* event.data of an inbound frame: text that JSON.parse rejects, the text
\* null, an object without (or with an empty) message, an object with one
InboundFrames ==
    { [json |-> "unparsable", message |-> ""],
      [json |-> "null", message |-> ""],
      [json |-> "object", message |-> ""],
      [json |-> "object", message |-> "hello"] }

\* toolCall.function.arguments: text that JSON.parse rejects, the text null,
\* the text of a number, an object whose query is absent or empty
\* (query = <<>>), an object whose query is a number, an object with a query
\* string
Arguments ==
    { [json |-> "unparsable", query |-> <<>>],
      [json |-> "null", query |-> <<>>],
      [json |-> "number", query |-> <<>>],
      [json |-> "object", query |-> <<>>],
      [json |-> "objectNumberQuery", query |-> <<>>] }
    \cup { [json |-> "object", query |-> q] : q \in ToolQueries }

ToolCallShapes ==
    { [name |-> "run_sql_query", arguments |-> a] : a \in Arguments }
    \cup { [name |-> "run_sql_mutation", arguments |-> [json |-> "object", query |-> q]] :
              q \in ToolQueries }
    \cup { [name |-> "get_weather", arguments |-> [json |-> "object", query |-> QSelect]] }

ToolCall(id, shape) ==
    [id |-> id, name |-> shape.name, arguments |-> shape.arguments]

CallIds == [i \in 1..(MaxBatch + 1) |-> <<"call_1", "call_2", "call_3", "call_4">>[i]]

\* the batches of n tool calls; the backend numbers the calls of a turn
BatchesOf(n) ==
    { [i \in 1..n |-> ToolCall(CallIds[i], f[i])] : f \in [1..n -> ToolCallShapes] }

\* the turn of the scenario of the specification: one run_sql_query call
\* with a SELECT query
StandardBatch ==
    << ToolCall("call_1",
                [name |-> "run_sql_query",
                 arguments |-> [json |-> "object", query |-> QSelect]]) >>

\* outcomes of the completion request other than an assistant turn with
\* tool calls: fetch rejects or the status is not 2xx; the body has no
\* choices[0]; choices[0] has no message; a turn without tool calls
PlainReplies == {"failed", "noChoices", "noMessage", "terminal"}

\* outcomes of the data-access request
SqlResults == {"ok", "httpError", "networkError", "badBody"}

\* a listener invocation: its position, its locals iteration and (while
\* callSqlApi is pending) toolCall.id, the tool calls the for loop has not
\* reached yet, the endpoint callSqlApi posted to, and the number of
\* completion requests it issued
IdleRun ==
    [pc |-> "idle", iteration |-> 0, requests |-> 0,
     toolCallId |-> "", rest |-> <<>>, url |-> "none"]

\* the last step: the event handled, the connection and listener it belongs
\* to, its input, the tool calls its for loop started with, the frames
\* delivered to the client, the HTTP requests issued, and how a loop run
\* ended in it
Out(op, s, r, input, calls, frames, requests, exit) ==
    [op |-> op, sid |-> s, rid |-> r, input |-> input, calls |-> calls,
     frames |-> frames, requests |-> requests, exit |-> exit]

-----------------------------------------------------------------------------
(* Map *)

MapSet(m, k, v) == [x \in (DOMAIN m) \cup {k} |-> IF x = k THEN v ELSE m[x]]
MapDelete(m, k) == [x \in (DOMAIN m) \ {k} |-> m[x]]
MapHas(m, k) == k \in DOMAIN m
EmptyMap == [x \in {} |-> FALSE]

\* the busy check reads a key the map never holds
ProcessingGetWrongKey(s) == FALSE

\* the busy check reads one flag shared by all connections
ProcessingGetAnySession(s) == \E t \in DOMAIN processing : processing[t]

\* truthiness of processing.get(conversationId): undefined is falsy
ProcessingGet(s) == MapHas(processing, s) /\ processing[s]

Active(s) == { r \in RunIds : runs[s][r].pc # "idle" }

-----------------------------------------------------------------------------
(* Initial state: the module is loaded, no connection was accepted *)

InitWith(e) ==
    /\ variant \in Variants
    /\ conn = [s \in Sessions |-> "none"]
    /\ conversations = EmptyMap
    /\ processing = EmptyMap
    /\ arrays = [s \in Sessions |-> <<>>]
    /\ runs = [s \in Sessions |-> [r \in RunIds |-> IdleRun]]
    /\ out = Out("load", "", 0, "", <<>>, <<>>, <<>>, "none")
    /\ env = e

\* one connection; the backend returns turns of arbitrary shape
Init ==
    InitWith([frames |-> MaxFrames, toolCalls |-> MaxToolCalls, standard |-> 0,
              sqlFailures |-> MaxSqlFailures, connections |-> 1,
              logTurn |-> FALSE, turn |-> <<>>])

\* one connection; the backend returns the standard turn often enough to
\* reach the iteration ceiling
InitCeiling ==
    InitWith([frames |-> MaxCeilingFrames, toolCalls |-> MaxToolCalls,
              standard |-> maxIterations, sqlFailures |-> 0, connections |-> 1,
              logTurn |-> FALSE, turn |-> <<>>])

\* one connection; the backend returns turns of several tool calls
InitBatch ==
    InitWith([frames |-> MaxBatchFrames, toolCalls |-> MaxBatchCalls, standard |-> 0,
              sqlFailures |-> MaxSqlFailures, connections |-> 1,
              logTurn |-> FALSE, turn |-> <<>>])

\* one connection; the backend returns the standard turn or a turn without
\* tool calls; the client logs the frames of each turn
InitScenario ==
    InitWith([frames |-> MaxScenarioFrames, toolCalls |-> 0,
              standard |-> MaxScenarioTurns, sqlFailures |-> 0, connections |-> 1,
              logTurn |-> TRUE, turn |-> <<>>])

\* two connections; the backend returns the standard turn or a turn without
\* tool calls
InitTwo ==
    InitWith([frames |-> MaxTwoFrames, toolCalls |-> 0,
              standard |-> MaxTwoTurns, sqlFailures |-> 0, connections |-> 2,
              logTurn |-> FALSE, turn |-> <<>>])

\* one connection and one turn; the backend returns the standard turn often
\* enough to reach the iteration ceiling
InitTerminal ==
    InitWith([frames |-> MaxTerminalFrames, toolCalls |-> MaxTerminalCalls,
              standard |-> maxIterations, sqlFailures |-> 0, connections |-> 1,
              logTurn |-> FALSE, turn |-> <<>>])

-----------------------------------------------------------------------------
(* fetch(request, env, ctx): a connection is accepted *)

\* The configuration is present and the request asks for the upgrade.
\* generateUuid is taken to return a fresh id; ids are used in a fixed order.
Connect(s) ==
    /\ conn[s] = "none"
    /\ env.connections > 0
    /\ \E i \in 1..Len(SessionOrder) :
          /\ SessionOrder[i] = s
          /\ \A j \in 1..(i - 1) : conn[SessionOrder[j]] # "none"
    /\ conn' = [conn EXCEPT ![s] = "open"]
    /\ arrays' = [arrays EXCEPT ![s] = <<SystemMessage>>]
    /\ conversations' = MapSet(conversations, s, s)
    /\ processing' = MapSet(processing, s, FALSE)
    /\ out' = Out("connect", s, 0, "", <<>>,
                  IF variant = "part_000" THEN <<Greeting>> ELSE <<>>,
                  <<>>, "none")
    /\ env' = [env EXCEPT !.connections = @ - 1]
    /\ UNCHANGED <<variant, runs>>

(* the close and error listeners *)

Close(s) ==
    /\ conn[s] \in {"open", "errored"}
    /\ conversations' = MapDelete(conversations, s)
    /\ processing' = MapDelete(processing, s)
    /\ conn' = [conn EXCEPT ![s] = "closed"]
    /\ out' = Out("close", s, 0, "", <<>>, <<>>, <<>>, "none")
    /\ UNCHANGED <<variant, arrays, runs, env>>

ErrorEvent(s) ==
    /\ conn[s] = "open"
    /\ conversations' = MapDelete(conversations, s)
    /\ processing' = MapDelete(processing, s)
    /\ conn' = [conn EXCEPT ![s] = "errored"]
    /\ out' = Out("error", s, 0, "", <<>>, <<>>, <<>>, "none")
    /\ UNCHANGED <<variant, arrays, runs, env>>

-----------------------------------------------------------------------------
(* The message listener between two suspension points.  Each operator     *)
(* below is a stretch of the listener; it yields the array content, the   *)
(* listener's position and locals, the frames passed to send, the HTTP    *)
(* requests issued, whether processing.set(conversationId, false) of the  *)
(* loop exit was executed, and how the loop ended.                        *)

Effect(arr, run, frames, requests, clear, exit) ==
    [arr |-> arr, run |-> run, frames |-> frames, requests |-> requests,
     clear |-> clear, exit |-> exit]

\* the turn that ended with a break is counted as an iteration
AfterLoopCountsBreak(arr, run, frames, requests, exit) ==
    IF run.iteration + 1 >= maxIterations
    THEN Effect(arr, IdleRun, Append(frames, MaxIterationsError), requests,
                TRUE, "maxIterations")
    ELSE Effect(arr, IdleRun, frames, requests, TRUE, exit)

\* after the while loop: the max-iterations frame and the busy reset
AfterLoop(arr, run, frames, requests, exit) ==
    IF run.iteration >= maxIterations
    THEN Effect(arr, IdleRun, Append(frames, MaxIterationsError), requests,
                TRUE, "maxIterations")
    ELSE Effect(arr, IdleRun, frames, requests, TRUE, exit)

\* the while condition and the completion request
WhileHead(arr, run, frames, requests) ==
    IF run.iteration < maxIterations
    THEN Effect(arr,
                [run EXCEPT !.pc = "awaitCompletion", !.requests = @ + 1,
                            !.toolCallId = "", !.rest = <<>>, !.url = "none"],
                frames, Append(requests, "completion"), FALSE, "none")
    ELSE AfterLoop(arr, run, frames, requests, "none")

\* the for loop was left (its end or a break): iteration++
EndOfBatch(arr, run, frames, requests) ==
    WhileHead(arr, [run EXCEPT !.iteration = @ + 1], frames, requests)

\* the inner catch returns from the listener instead of leaving the loop
InnerCatchReturns(arr, run, frames, requests) ==
    Effect(arr, IdleRun, Append(frames, DeepSeekError), requests, FALSE,
           "completionError")

\* the inner catch reports the error and goes on with the next iteration
InnerCatchContinues(arr, run, frames, requests) ==
    EndOfBatch(arr, run, Append(frames, DeepSeekError), requests)

\* the catch of the try inside the while loop: error frame and break
InnerCatch(arr, run, frames, requests) ==
    AfterLoop(arr, run, Append(frames, DeepSeekError), requests, "completionError")

\* callSqlApi up to its fetch
CallSql(arr, run, toolCall, rest, frames, requests) ==
    LET url == callSqlApiUrl(toolCall.arguments.query) IN
    Effect(arr,
           [run EXCEPT !.pc = "awaitSql", !.toolCallId = toolCall.id,
                       !.rest = rest, !.url = url],
           frames,
           IF url = "invalid" THEN requests ELSE Append(requests, url),
           FALSE, "none")

\* run_sql_query lets every query through
QueryPolicyAccepts(query) == TRUE

\* the policy check of run_sql_query
QueryPolicy(query) == includes(toUpperCase(query), SELECT)

\* the policy check of run_sql_mutation
MutationPolicy(query) ==
    \E op \in {INSERT, UPDATE, DELETE} : includes(toUpperCase(query), op)

\* the for loop goes on with the next tool call after a rejection (continue
\* in the place of break)
RECURSIVE ForLoopContinues(_, _, _, _, _)
ForLoopContinues(arr, run, calls, frames, requests) ==
    IF calls = <<>> THEN EndOfBatch(arr, run, frames, requests)
    ELSE
    LET toolCall == Head(calls)
        functionName == toolCall.name
        agrs == toolCall.arguments
        query == agrs.query
        description ==
            IF functionName = "run_sql_query"
            THEN "Querying data..." ELSE "Updating data..."
        progress == Append(frames, ProgressFrame(description))
        skip(sent) == ForLoopContinues(arr, run, Tail(calls), sent, requests)
    IN
    CASE agrs.json = "unparsable" -> skip(Append(frames, InvalidArgsError))
      [] agrs.json = "null" -> InnerCatch(arr, run, frames, requests)
      [] agrs.json = "number" \/ (agrs.json = "object" /\ query = <<>>) ->
           skip(Append(frames, MissingQueryError))
      [] agrs.json = "objectNumberQuery" ->
           IF functionName \in {"run_sql_query", "run_sql_mutation"}
           THEN InnerCatch(arr, run, progress, requests)
           ELSE skip(Append(progress, UnknownFunctionError))
      [] OTHER ->
           IF functionName = "run_sql_query" THEN
               IF ~QueryPolicy(query)
               THEN skip(Append(progress, QueryPolicyError))
               ELSE CallSql(arr, run, toolCall, Tail(calls), progress, requests)
           ELSE IF functionName = "run_sql_mutation" THEN
               IF ~MutationPolicy(query)
               THEN skip(Append(progress, MutationPolicyError))
               ELSE CallSql(arr, run, toolCall, Tail(calls), progress, requests)
           ELSE skip(Append(progress, UnknownFunctionError))

\* the body of the for loop for the tool calls left of the batch
ForLoop(arr, run, calls, frames, requests) ==
    IF calls = <<>> THEN EndOfBatch(arr, run, frames, requests)
    ELSE
    LET toolCall == Head(calls)
        functionName == toolCall.name
        agrs == toolCall.arguments
        query == agrs.query
        description ==
            IF functionName = "run_sql_query"
            THEN "Querying data..." ELSE "Updating data..."
        progress == Append(frames, ProgressFrame(description))
    IN
    CASE agrs.json = "unparsable" ->
           EndOfBatch(arr, run, Append(frames, InvalidArgsError), requests)
      [] agrs.json = "null" ->
           \* agrs.query throws a TypeError
           InnerCatch(arr, run, frames, requests)
      [] agrs.json = "number" \/ (agrs.json = "object" /\ query = <<>>) ->
           \* agrs.query is undefined or ""
           EndOfBatch(arr, run, Append(frames, MissingQueryError), requests)
      [] agrs.json = "objectNumberQuery" ->
           \* query.toUpperCase is not a function: a TypeError
           IF functionName \in {"run_sql_query", "run_sql_mutation"}
           THEN InnerCatch(arr, run, progress, requests)
           ELSE EndOfBatch(arr, run, Append(progress, UnknownFunctionError), requests)
      [] OTHER ->
           IF functionName = "run_sql_query" THEN
               IF ~QueryPolicy(query)
               THEN EndOfBatch(arr, run, Append(progress, QueryPolicyError), requests)
               ELSE CallSql(arr, run, toolCall, Tail(calls), progress, requests)
           ELSE IF functionName = "run_sql_mutation" THEN
               IF ~MutationPolicy(query)
               THEN EndOfBatch(arr, run, Append(progress, MutationPolicyError), requests)
               ELSE CallSql(arr, run, toolCall, Tail(calls), progress, requests)
           ELSE EndOfBatch(arr, run, Append(progress, UnknownFunctionError), requests)

\* the catch of the listener's outer try
OuterCatch(s) == MapSet(processing, s, FALSE)

\* A resumed listener takes effect.  While the socket is open send delivers.
\* After the close or error event send either drops the frame or throws
\* (it depends on the runtime): a throw of send reaches the inner catch,
\* whose send throws, then the outer catch, whose send throws, and the
\* listener ends before its busy reset.  In every stretch the push precedes
\* the first send and every request follows it.
Resume(s, r, eff, throws, op, input, calls) ==
    LET died == conn[s] # "open" /\ throws /\ eff.frames # <<>> IN
    /\ arrays' = [arrays EXCEPT ![s] = eff.arr]
    /\ runs' = [runs EXCEPT ![s][r] = IF died THEN IdleRun ELSE eff.run]
    /\ processing' = IF ~died /\ eff.clear
                     THEN MapSet(processing, s, FALSE) ELSE processing
    /\ out' = Out(op, s, r, input, calls,
                  IF conn[s] = "open" THEN eff.frames ELSE <<>>,
                  IF died THEN <<>> ELSE eff.requests,
                  IF died THEN "died" ELSE eff.exit)
    /\ UNCHANGED <<variant, conn, conversations>>

SendThrows(s) == IF conn[s] = "open" THEN {FALSE} ELSE BOOLEAN

\* the client's log of the turn: the fields of the frames a loop run
\* delivered since its message was accepted
TurnLog(e, s, frames) ==
    IF e.logTurn /\ conn[s] = "open"
    THEN [e EXCEPT !.turn = @ \o [i \in 1..Len(frames) |-> frames[i].field]]
    ELSE e

-----------------------------------------------------------------------------
(* serverWebSocket "message" event: the listener up to its first fetch *)

FreeRun(s) == CHOOSE r \in RunIds \ Active(s) : \A q \in RunIds \ Active(s) : r <= q

OnMessage(s) ==
    /\ conn[s] = "open"
    /\ env.frames > 0
    /\ \E frame \in InboundFrames :
        IF frame.json \in {"unparsable", "null"} THEN
            \* JSON.parse throws, or data.message throws on null
            /\ env' = [env EXCEPT !.frames = @ - 1]
            /\ processing' = OuterCatch(s)
            /\ out' = Out("message", s, 0, "malformed", <<>>, <<OuterError>>, <<>>,
                          "none")
            /\ UNCHANGED <<variant, conn, conversations, arrays, runs>>
        ELSE IF frame.message = "" THEN
            /\ env' = [env EXCEPT !.frames = @ - 1]
            /\ out' = Out("message", s, 0, "nomessage", <<>>, <<NoMessageError>>, <<>>,
                          "none")
            /\ UNCHANGED <<variant, conn, conversations, processing, arrays, runs>>
        ELSE IF ProcessingGet(s) THEN
            /\ env' = [env EXCEPT !.frames = @ - 1]
            /\ out' = Out("message", s, 0, "message", <<>>, <<BusyError>>, <<>>, "none")
            /\ UNCHANGED <<variant, conn, conversations, processing, arrays, runs>>
        ELSE
            /\ Active(s) # RunIds
            /\ LET r == FreeRun(s)
                   messages == conversations[s]
                   pushed == Append(arrays[messages], UserMessage(frame.message))
                   echo == IF variant = "index.js"
                           THEN <<ProgressFrame("You: ...")>> ELSE <<>>
                   eff == WhileHead(pushed, IdleRun, echo, <<>>)
               IN
               /\ env' = TurnLog([env EXCEPT !.frames = @ - 1, !.turn = <<>>],
                                 s, eff.frames)
               /\ processing' = MapSet(processing, s, TRUE)
               /\ arrays' = [arrays EXCEPT ![messages] = eff.arr]
               /\ runs' = [runs EXCEPT ![s][r] = eff.run]
               /\ out' = Out("message", s, r, "message", <<>>,
                             eff.frames, eff.requests, eff.exit)
            /\ UNCHANGED <<variant, conn, conversations>>

-----------------------------------------------------------------------------
(* the completion request settles *)

Reply(kind, calls, free) == [kind |-> kind, calls |-> calls, free |-> free]

Min(a, b) == IF a <= b THEN a ELSE b

\* what the completion backend may still answer: a failure or a turn
\* without tool calls; a turn with tool calls of arbitrary shape; the
\* standard turn
Replies ==
    { Reply(k, <<>>, FALSE) : k \in PlainReplies }
    \cup { Reply("toolCalls", b, TRUE) :
             b \in UNION { BatchesOf(n) : n \in 1..Min(MaxBatch, env.toolCalls) } }
    \cup (IF env.standard > 0
          THEN { Reply("toolCalls", StandardBatch, FALSE) } ELSE {})

CompletionReturns(s, r) ==
    /\ runs[s][r].pc = "awaitCompletion"
    /\ \E reply \in Replies, throws \in SendThrows(s) :
        LET run == runs[s][r]
            arr == arrays[s]
            eff ==
              CASE reply.kind \in {"failed", "noChoices"} ->
                     InnerCatch(arr, run, <<>>, <<>>)
                [] reply.kind = "noMessage" ->
                     \* messages.push(undefined), then
                     \* messageResponse.tool_calls throws
                     InnerCatch(Append(arr, UndefinedMessage), run, <<>>, <<>>)
                [] reply.kind = "terminal" ->
                     AfterLoop(Append(arr, AssistantMessage("text", <<>>)), run,
                               <<ResponseFrame("text")>>, <<>>, "response")
                [] OTHER ->
                     ForLoop(Append(arr, AssistantMessage("", reply.calls)), run,
                             reply.calls, <<>>, <<>>)
            left == IF reply.kind # "toolCalls" THEN env
                    ELSE IF reply.free
                         THEN [env EXCEPT !.toolCalls = @ - Len(reply.calls)]
                         ELSE [env EXCEPT !.standard = @ - 1]
        IN /\ env' = TurnLog(left, s, eff.frames)
           /\ Resume(s, r, eff, throws, "completion",
                     IF reply.kind \in {"terminal", "toolCalls"}
                     THEN reply.kind ELSE "failed",
                     reply.calls)

-----------------------------------------------------------------------------
(* the data-access request settles *)

SqlContent(result) ==
    CASE result = "ok" -> "data"
      [] result = "invalidQueryType" -> "Invalid query type"
      [] OTHER -> "API call error: ..."

\* a failure of the data-access request is thrown into the inner catch
SqlSettledThrows(arr, run, result) ==
    IF result = "ok"
    THEN ForLoop(Append(arr, ToolMessage(run.toolCallId, SqlContent(result))),
                 run, run.rest, <<>>, <<>>)
    ELSE InnerCatch(arr, run, <<>>, <<>>)

\* callSqlApi returned a value: the tool message is pushed and the for loop
\* goes on with the next tool call
SqlSettled(arr, run, result) ==
    ForLoop(Append(arr, ToolMessage(run.toolCallId, SqlContent(result))),
            run, run.rest, <<>>, <<>>)

SqlReturns(s, r) ==
    /\ runs[s][r].pc = "awaitSql"
    /\ \E result \in (IF runs[s][r].url = "invalid"
                      THEN {"invalidQueryType"} ELSE SqlResults),
          throws \in SendThrows(s) :
        LET run == runs[s][r]
            failed == result \in SqlResults \ {"ok"}
            eff == SqlSettled(arrays[s], run, result)
        IN /\ failed => env.sqlFailures > 0
           /\ env' = TurnLog(IF failed THEN [env EXCEPT !.sqlFailures = @ - 1] ELSE env,
                             s, eff.frames)
           /\ Resume(s, r, eff, throws, "sql",
                     IF result = "ok" THEN "ok" ELSE "failed", run.rest)

-----------------------------------------------------------------------------

Next ==
    \E s \in Sessions :
        \/ Connect(s)
        \/ OnMessage(s)
        \/ Close(s)
        \/ ErrorEvent(s)
        \/ \E r \in RunIds : CompletionReturns(s, r)
        \/ \E r \in RunIds : SqlReturns(s, r)

Spec == Init /\ [][Next]_vars

\* The connections stay open.
NextOpen ==
    \E s \in Sessions :
        \/ Connect(s)
        \/ OnMessage(s)
        \/ \E r \in RunIds : CompletionReturns(s, r)
        \/ \E r \in RunIds : SqlReturns(s, r)

\* Every external call eventually returns or fails.
ExternalReturns ==
    \E s \in Sessions, r \in RunIds : CompletionReturns(s, r) \/ SqlReturns(s, r)

Fairness == WF_vars(ExternalReturns)

SpecCeiling == InitCeiling /\ [][NextOpen]_vars /\ Fairness

SpecBatch == InitBatch /\ [][Next]_vars

SpecScenario == InitScenario /\ [][Next]_vars

SpecTwo == InitTwo /\ [][Next]_vars

SpecTerminal == InitTerminal /\ [][NextOpen]_vars

-----------------------------------------------------------------------------
(* callSqlApi called on its own *)

CallSqlApi ==
    /\ \E query \in Queries :
         LET url == callSqlApiUrl(query) IN
         out' = Out("callSqlApi", "", 0, query, <<>>, <<>>,
                    IF url = "invalid" THEN <<>> ELSE <<url>>,
                    IF url = "invalid" THEN "Invalid query type" ELSE "none")
    /\ UNCHANGED <<variant, conn, conversations, processing, arrays, runs, env>>

NextRouter == CallSqlApi

SpecRouter == Init /\ [][NextRouter]_vars

-----------------------------------------------------------------------------
(* Properties *)

Range(f) == { f[i] : i \in DOMAIN f }

\* the step taken belongs to a resumed listener
ResumedStep(o) == o.op \in {"completion", "sql"}

\* C1: at most one Orchestration Loop run is active for a session at any
\* time, whatever inbound frames arrive while a run is suspended.
C1_AtMostOneRun ==
    \A s \in Sessions : Cardinality(Active(s)) <= 1

\* C2: for a live session the busy flag is true if and only if a loop run
\* is active for that session.
C2_BusyIffActive ==
    \A s \in Sessions :
        conn[s] = "open" =>
            ((MapHas(processing, s) /\ processing[s]) <=> Active(s) # {})

\* C3: a frame with a non-empty message that arrives while the busy flag is
\* true is answered by exactly one "Processing previous message, please
\* wait." error frame; the history, the busy flag and the runs are unchanged
\* and no request is issued.
C3_BusyRejection ==
    [][ ( /\ out'.op = "message"
          /\ out'.input = "message"
          /\ MapHas(processing, out'.sid)
          /\ processing[out'.sid] )
        => ( /\ out'.frames = <<BusyError>>
             /\ out'.requests = <<>>
             /\ arrays' = arrays
             /\ conversations' = conversations
             /\ processing' = processing
             /\ runs' = runs ) ]_vars

C3_Witness ==
    /\ out.op = "message"
    /\ out.input = "message"
    /\ out.frames = <<BusyError>>
    /\ Active(out.sid) # {}
    /\ processing[out.sid]

\* C4: a loop run issues at most ten completion requests; a run whose tenth
\* request returned a turn with tool calls ends (the connection being open)
\* with the max-iterations error frame and without an eleventh request; the
\* max-iterations frame is sent in no other case.
C4_Ceiling ==
    /\ [](\A s \in Sessions, r \in RunIds : runs[s][r].requests <= 10)
    /\ [][ (ResumedStep(out') /\ conn[out'.sid] = "open") =>
             LET run == runs[out'.sid][out'.rid]
                 tenthHadToolCalls ==
                     /\ run.requests = 10
                     /\ \/ run.pc = "awaitSql"
                        \/ out'.input = "toolCalls"
                 maxFrame == MaxIterationsError \in Range(out'.frames)
             IN /\ (tenthHadToolCalls /\ out'.exit # "none") => maxFrame
                /\ tenthHadToolCalls => "completion" \notin Range(out'.requests)
                /\ maxFrame => (tenthHadToolCalls /\ out'.exit = "maxIterations") ]_vars

\* C5: every tool message of a session's history carries the id of a tool
\* call of the nearest preceding assistant message, with only tool messages
\* between the two.
C5_ToolMessagesFollowTheirCall ==
    \A s \in DOMAIN conversations :
        LET history == arrays[conversations[s]] IN
        \A i \in 1..Len(history) :
            history[i].role = "tool" =>
                \E j \in 1..(i - 1) :
                    /\ history[j].role = "assistant"
                    /\ \A k \in (j + 1)..(i - 1) : history[k].role = "tool"
                    /\ history[i].tool_call_id \in Range(history[j].tool_calls)

\* C6: a protocol error on an inbound frame (unparsable, null, no message)
\* is answered by one error frame and leaves the history, the busy flag and
\* the runs as they were.
C6_ProtocolErrorKeepsState ==
    [][ (out'.op = "message" /\ out'.input \in {"malformed", "nomessage"})
        => ( /\ Len(out'.frames) = 1
             /\ out'.frames[1].field = "error"
             /\ out'.requests = <<>>
             /\ arrays' = arrays
             /\ conversations' = conversations
             /\ processing' = processing
             /\ runs' = runs ) ]_vars

\* C7: once the close or error event of a connection was handled, neither
\* store holds an entry for its id, also after a run in flight resumed.
C7_NoEntryAfterClose ==
    \A s \in Sessions :
        conn[s] \in {"closed", "errored"} =>
            ~MapHas(conversations, s) /\ ~MapHas(processing, s)

\* C8: after the close event no request to the completion backend and none
\* to the data-access backend is issued for that session.
C8_NoRequestAfterClose ==
    [][ (ResumedStep(out') /\ conn[out'.sid] = "closed")
        => out'.requests = <<>> ]_vars

\* C9: if every external call returns and the connection stays open, every
\* loop run that starts exits; at each exit (terminal response, completion
\* error, iteration ceiling) the busy flag is false afterwards; and a
\* message with content that arrives when no run is active is accepted.
C9_RunsExitAndClearBusy ==
    /\ \A s \in Sessions, r \in RunIds :
         (runs[s][r].pc # "idle") ~> (runs[s][r].pc = "idle" \/ conn[s] # "open")
    /\ [][ \A s \in Sessions :
            (out'.op = "message" /\ out'.input = "message" /\ out'.sid = s
                /\ Active(s) = {})
            => /\ out'.requests = <<"completion">>
               /\ runs'[s][out'.rid].pc = "awaitCompletion" ]_vars
    /\ [][ (ResumedStep(out') /\ conn[out'.sid] = "open") =>
             /\ out'.exit \in {"none", "response", "completionError", "maxIterations"}
             /\ (runs'[out'.sid][out'.rid].pc = "idle") <=> (out'.exit # "none")
             /\ out'.exit # "none" =>
                  /\ MapHas(processing', out'.sid)
                  /\ ~processing'[out'.sid] ]_vars

C9_Witness ==
    /\ ResumedStep(out)
    /\ out.exit = "maxIterations"
    /\ conn[out.sid] = "open"
    /\ ~processing[out.sid]
    /\ Active(out.sid) = {}
    /\ Cardinality({i \in DOMAIN arrays[out.sid] :
                        arrays[out.sid][i].role = "user"}) = 2

\* the reference of C10: a write keyword wins over SELECT
RouterReference(query) ==
    LET upperQuery == toUpperCase(query) IN
    IF \E op \in {INSERT, UPDATE, DELETE} : includes(upperQuery, op) THEN "mutate"
    ELSE IF includes(upperQuery, SELECT) THEN "query"
    ELSE "invalid"

\* C10: for every query string callSqlApi selects the write endpoint if the
\* query contains INSERT, UPDATE or DELETE, else the read endpoint if it
\* contains SELECT, else it returns the invalid-query-kind error without a
\* request.
C10_RouterMatchesReference ==
    out.op = "callSqlApi" =>
        LET choice == RouterReference(out.input) IN
        IF choice = "invalid"
        THEN out.requests = <<>> /\ out.exit = "Invalid query type"
        ELSE out.requests = <<choice>>

\* the call the for loop of the step starts with has a query string
HasQueryString(call) ==
    call.arguments.json = "object" /\ call.arguments.query # <<>>

\* the tool messages the step appended to the history of s for call id
AppendedToolMessages(s, id) ==
    { i \in (Len(arrays[s]) + 1)..Len(arrays'[s]) :
        arrays'[s][i].role = "tool" /\ arrays'[s][i].tool_call_id = id }

\* the step issued a data-access request or left the run waiting for one
DataAccessCall(s) ==
    \/ Range(out'.requests) \cap {"query", "mutate"} # {}
    \/ runs'[s][out'.rid].pc = "awaitSql"

\* C11: a run_sql_query call whose query string lacks SELECT (whatever the
\* case) gets the run_sql_query policy error frame, no tool message and no
\* data-access call; a run_sql_mutation call whose query string holds none
\* of INSERT, UPDATE, DELETE gets the run_sql_mutation policy error frame, no
\* tool message and no data-access call.
C11_PolicyRejection ==
    [][ \A s \in Sessions :
          (ResumedStep(out') /\ out'.sid = s /\ out'.calls # <<>>) =>
            LET call == Head(out'.calls)
                upper == toUpperCase(call.arguments.query)
                lacksSelect ==
                    /\ call.name = "run_sql_query"
                    /\ HasQueryString(call)
                    /\ ~includes(upper, SELECT)
                lacksWrite ==
                    /\ call.name = "run_sql_mutation"
                    /\ HasQueryString(call)
                    /\ ~includes(upper, INSERT)
                    /\ ~includes(upper, UPDATE)
                    /\ ~includes(upper, DELETE)
                rejected(frame) ==
                    /\ conn[s] = "open" => frame \in Range(out'.frames)
                    /\ AppendedToolMessages(s, call.id) = {}
                    /\ ~DataAccessCall(s)
            IN /\ lacksSelect => rejected(QueryPolicyError)
               /\ lacksWrite => rejected(MutationPolicyError) ]_vars

\* the second call of a batch, a run_sql_mutation with a SELECT query, was
\* rejected after the first call's result arrived
C11_Witness ==
    /\ out.op = "sql"
    /\ out.calls # <<>>
    /\ Head(out.calls).name = "run_sql_mutation"
    /\ Head(out.calls).arguments.query = QSelect
    /\ MutationPolicyError \in Range(out.frames)
    /\ runs[out.sid][out.rid].pc # "awaitSql"

\* the call is one the dispatcher rejects: unparsable arguments, arguments
\* without a non-empty query (null and non-objects included), a policy
\* violation, an unknown tool name
RejectedAtDispatch(call) ==
    LET upper == toUpperCase(call.arguments.query) IN
    \/ call.arguments.json \in {"unparsable", "null", "number"}
    \/ call.arguments.json = "object" /\ call.arguments.query = <<>>
    \/ call.name \notin {"run_sql_query", "run_sql_mutation"}
    \/ /\ HasQueryString(call)
       /\ call.name = "run_sql_query"
       /\ ~includes(upper, SELECT)
    \/ /\ HasQueryString(call)
       /\ call.name = "run_sql_mutation"
       /\ ~includes(upper, INSERT)
       /\ ~includes(upper, UPDATE)
       /\ ~includes(upper, DELETE)

\* C12: when the call the for loop reaches is rejected at dispatch and the
\* socket is open, the client gets an error frame, the rest of the batch is
\* dropped, the iteration counter goes up by one and the run issues its next
\* completion request, or ends at the ceiling if that was the tenth turn.
C12_RejectionContinuesLoop ==
    [][ \A s \in Sessions :
          ( /\ ResumedStep(out') /\ out'.sid = s /\ conn[s] = "open"
            /\ out'.calls # <<>>
            /\ RejectedAtDispatch(Head(out'.calls)) ) =>
            LET before == runs[s][out'.rid]
                after == runs'[s][out'.rid]
            IN /\ \E i \in DOMAIN out'.frames : out'.frames[i].field = "error"
               /\ ~DataAccessCall(s)
               /\ after.rest = <<>>
               /\ IF before.iteration + 1 < maxIterations
                  THEN /\ out'.exit = "none"
                       /\ after.pc = "awaitCompletion"
                       /\ after.iteration = before.iteration + 1
                       /\ out'.requests = <<"completion">>
                  ELSE /\ out'.exit = "maxIterations"
                       /\ out'.requests = <<>> ]_vars

\* C13: when a completion request fails (fetch rejects, status not 2xx, body
\* without choices[0].message) the client of an open socket gets exactly one
\* frame, an error frame; the run ends in that step without a further
\* completion or data-access request; the busy flag is false afterwards.
C13_CompletionFailureEndsRun ==
    [][ \A s \in Sessions :
          (out'.op = "completion" /\ out'.input = "failed" /\ out'.sid = s) =>
            /\ conn[s] = "open" =>
                  /\ Len(out'.frames) = 1
                  /\ out'.frames[1].field = "error"
                  /\ out'.exit = "completionError"
            /\ out'.requests = <<>>
            /\ runs'[s][out'.rid].pc = "idle"
            /\ ~(MapHas(processing', s) /\ processing'[s]) ]_vars

\* choices[0] had no message: the run ended with the error frame
C13_Witness ==
    /\ out.op = "completion"
    /\ out.input = "failed"
    /\ conn[out.sid] = "open"
    /\ out.frames = <<DeepSeekError>>
    /\ arrays[out.sid][Len(arrays[out.sid])] = UndefinedMessage
    /\ runs[out.sid][out.rid].pc = "idle"
    /\ ~processing[out.sid]

\* the call passes validation and policy
ValidCall(call) ==
    /\ call.name \in {"run_sql_query", "run_sql_mutation"}
    /\ HasQueryString(call)
    /\ ~RejectedAtDispatch(call)

NoErrorFrame(frames) == \A i \in DOMAIN frames : frames[i].field # "error"

\* C14: when the data-access request of a tool call fails, the step appends
\* one tool message with the error payload and the id of that call; if the
\* batch has a next call that is valid, that call is dispatched and no error
\* frame is sent; if the batch is finished before the tenth turn, the run
\* issues its next completion request and no frame is sent.
C14_SqlFailureBecomesToolMessage ==
    [][ \A s \in Sessions :
          (out'.op = "sql" /\ out'.input = "failed" /\ out'.sid = s) =>
            LET before == runs[s][out'.rid]
                after == runs'[s][out'.rid]
                history == arrays[s]
                rest == before.rest
            IN /\ arrays'[s] = Append(history,
                                      ToolMessage(before.toolCallId, "API call error: ..."))
               /\ \E j \in DOMAIN history :
                     /\ history[j].role = "assistant"
                     /\ before.toolCallId \in Range(history[j].tool_calls)
               /\ conn[s] = "open" =>
                     /\ (rest # <<>> /\ ValidCall(Head(rest))) =>
                           /\ NoErrorFrame(out'.frames)
                           /\ out'.exit = "none"
                           /\ after.pc = "awaitSql"
                           /\ after.toolCallId = Head(rest).id
                           /\ Len(out'.requests) = 1
                           /\ out'.requests[1] \in {"query", "mutate"}
                     /\ (rest = <<>> /\ before.iteration + 1 < maxIterations) =>
                           /\ out'.frames = <<>>
                           /\ out'.exit = "none"
                           /\ after.pc = "awaitCompletion"
                           /\ out'.requests = <<"completion">> ]_vars

\* the first call of a batch of two failed at the backend and the second
\* call was dispatched
C14_Witness ==
    /\ out.op = "sql"
    /\ out.input = "failed"
    /\ conn[out.sid] = "open"
    /\ out.calls # <<>>
    /\ runs[out.sid][out.rid].pc = "awaitSql"
    /\ runs[out.sid][out.rid].toolCallId = "call_2"
    /\ arrays[out.sid][Len(arrays[out.sid])] = ToolMessage("call_1", "API call error: ...")

\* the end of the history after the turn of the scenario: the user message,
\* the assistant turn with the one run_sql_query call, its result, the
\* assistant turn without tool calls
ScenarioTurn ==
    << UserMessage("hello"), AssistantMessage("", StandardBatch),
       ToolMessage("call_1", "data"), AssistantMessage("text", <<>>) >>

\* C15: the run_sql_query call with the SELECT query goes to the read
\* endpoint, and when the turn of the scenario has ended (valid
\* run_sql_query call, successful backend answer, plain content) the frames
\* the client got for the turn are one progress frame, then one response
\* frame.
C15_ScenarioFrames ==
    /\ (out.op = "completion" /\ out.calls = StandardBatch /\ out.exit # "died")
          => out.requests = <<"query">>
    /\ \A s \in Sessions :
          LET history == arrays[s]
              n == Len(history)
          IN ( /\ out.op = "completion" /\ out.input = "terminal" /\ out.sid = s
               /\ conn[s] = "open"
               /\ n >= 4
               /\ SubSeq(history, n - 3, n) = ScenarioTurn )
             => env.turn = <<"progress", "response">>

\* the entry of map m for key k is the same after the step
SameEntry(m, k) ==
    /\ MapHas(m, k) <=> MapHas(m', k)
    /\ MapHas(m, k) => m'[k] = m[k]

\* C16: a step taken for one session (a message accepted or rejected, a
\* resumed loop run, the close or error event) leaves the history, the map
\* entries, the runs and the socket of every other session as they were; and
\* a message with content is rejected as busy only if the busy flag of its
\* own session is true.
C16_SessionsIndependent ==
    /\ [][ \A s \in Sessions, t \in Sessions :
              (s # t /\ out'.sid = s) =>
                 /\ arrays'[t] = arrays[t]
                 /\ SameEntry(conversations, t)
                 /\ SameEntry(processing, t)
                 /\ runs'[t] = runs[t]
                 /\ conn'[t] = conn[t] ]_vars
    /\ [][ \A s \in Sessions :
              ( /\ out'.op = "message" /\ out'.input = "message" /\ out'.sid = s
                /\ ~(MapHas(processing, s) /\ processing[s]) )
              => BusyError \notin Range(out'.frames) ]_vars

\* a message of the second session was accepted while the first was busy
C16_Witness ==
    /\ out.op = "message"
    /\ out.sid = "s2"
    /\ out.requests = <<"completion">>
    /\ conn["s1"] = "open"
    /\ processing["s1"]
    /\ Active("s1") # {}
    /\ Active("s2") # {}

\* the ids of the tool messages that follow position j of a history up to
\* the next message that is not a tool message
RECURSIVE ToolBlock(_, _)
ToolBlock(history, j) ==
    IF j + 1 <= Len(history) /\ history[j + 1].role = "tool"
    THEN <<history[j + 1].tool_call_id>> \o ToolBlock(history, j + 1)
    ELSE <<>>

IsPrefix(a, b) == Len(a) <= Len(b) /\ SubSeq(b, 1, Len(a)) = a

CountOf(seq, set) == Cardinality({ i \in DOMAIN seq : seq[i] \in set })

\* C17: the tool messages that follow an assistant turn carry the ids of a
\* prefix of its tool calls, in the order of the calls; a step of the for
\* loop dispatches the first call left of the batch and keeps the others
\* waiting, or rejects it and drops the others: then no tool message is
\* appended for a call left, no data-access request is issued, at most the
\* rejected call's own progress frame is sent and the history appended so
\* far stays.  (A listener whose send throws after the close event ends
\* without dispatching.)
C17_InOrderDispatch ==
    /\ [](\A s \in Sessions :
            \A j \in DOMAIN arrays[s] :
               arrays[s][j].role = "assistant" =>
                  IsPrefix(ToolBlock(arrays[s], j), arrays[s][j].tool_calls))
    /\ [][ \A s \in Sessions :
             (ResumedStep(out') /\ out'.sid = s /\ out'.calls # <<>>) =>
               LET cs == out'.calls
                   after == runs'[s][out'.rid]
                   ids == { cs[i].id : i \in DOMAIN cs }
               IN /\ IsPrefix(arrays[s], arrays'[s])
                  /\ Cardinality({ i \in DOMAIN out'.frames :
                                     out'.frames[i].field = "progress" }) <= 1
                  /\ CountOf(out'.requests, {"query", "mutate"}) <= 1
                  /\ \A id \in ids : AppendedToolMessages(s, id) = {}
                  /\ IF DataAccessCall(s)
                     THEN /\ ValidCall(Head(cs))
                          /\ after.toolCallId = Head(cs).id
                          /\ after.rest = Tail(cs)
                     ELSE /\ ValidCall(Head(cs)) => out'.exit = "died"
                          /\ after.rest = <<>>
                          /\ after.pc \in {"awaitCompletion", "idle"} ]_vars

\* the first call of a batch of two got its tool message, the second call
\* was rejected and the run went on to its next completion request
C17_Witness ==
    /\ out.op = "sql"
    /\ Len(out.calls) = 1
    /\ Head(out.calls).id = "call_2"
    /\ RejectedAtDispatch(Head(out.calls))
    /\ conn[out.sid] = "open"
    /\ \E i \in DOMAIN out.frames : out.frames[i].field = "error"
    /\ runs[out.sid][out.rid].pc = "awaitCompletion"
    /\ arrays[out.sid][Len(arrays[out.sid])].role = "tool"
    /\ arrays[out.sid][Len(arrays[out.sid])].tool_call_id = "call_1"

\* every tool call of every assistant message of the history is answered by
\* a tool message with its id before the next message of another role
AllCallsAnswered(history) ==
    \A j \in DOMAIN history :
        history[j].role = "assistant" =>
            Range(history[j].tool_calls) \subseteq Range(ToolBlock(history, j))

\* C18: whenever a completion request is issued, every tool call of every
\* assistant message of the history sent with it is answered by a tool
\* message with that call's id before the next user or assistant message.
C18_CallsAnsweredAtRequest ==
    [][ \A s \in Sessions :
          (out'.sid = s /\ "completion" \in Range(out'.requests))
            => AllCallsAnswered(arrays'[s]) ]_vars

\* the frames that end a turn
TerminalFrame(f) ==
    f.field = "response" \/ f = DeepSeekError \/ f = MaxIterationsError

TerminalOf(exit) ==
    CASE exit = "response" -> ResponseFrame("text")
      [] exit = "completionError" -> DeepSeekError
      [] exit = "maxIterations" -> MaxIterationsError

\* C19: with the socket open, the step in which a loop run exits sends
\* exactly one terminal frame (the response, the completion error or the
\* max-iterations error, according to the exit), as the last frame of the
\* step, and is the step that sets the busy flag to false and ends the run;
\* a step of a run that does not exit sends no terminal frame and leaves
\* the busy flag to the exit step.
C19_OneTerminalFrame ==
    [][ \A s \in Sessions :
          (out'.sid = s /\ out'.rid # 0 /\ conn[s] = "open") =>
            LET fs == out'.frames
                terminals == { i \in DOMAIN fs : TerminalFrame(fs[i]) }
                after == runs'[s][out'.rid]
            IN IF out'.exit # "none"
               THEN /\ terminals = {Len(fs)}
                    /\ fs[Len(fs)] = TerminalOf(out'.exit)
                    /\ after.pc = "idle"
                    /\ MapHas(processing', s) /\ ~processing'[s]
               ELSE /\ terminals = {}
                    /\ after.pc # "idle"
                    /\ IF out'.op = "message"
                       THEN processing'[s]
                       ELSE SameEntry(processing, s) ]_vars

\* the tenth turn's tool call was rejected: its progress frame, its error
\* frame, then the max-iterations frame
C19_Witness ==
    /\ ResumedStep(out)
    /\ conn[out.sid] = "open"
    /\ out.exit = "maxIterations"
    /\ Len(out.frames) = 3
    /\ out.frames[1].field = "progress"
    /\ out.frames[2].field = "error"
    /\ out.frames[3] = MaxIterationsError
    /\ runs[out.sid][out.rid].pc = "idle"
    /\ ~processing[out.sid]

\* C20: while a session exists its history starts with the system message
\* and holds no other system message; a step leaves it unchanged or appends
\* one message at the end: a user message only when a message is accepted,
\* an assistant message only when a completion request succeeded, a tool
\* message only when a data-access call returned.
C20_AppendOnlyHistory ==
    /\ [](\A s \in DOMAIN conversations :
            LET history == arrays[conversations[s]] IN
            /\ Len(history) >= 1
            /\ history[1] = SystemMessage
            /\ \A i \in 2..Len(history) : history[i].role # "system")
    /\ [][ \A s \in Sessions :
             (MapHas(conversations, s) /\ MapHas(conversations', s)) =>
               \/ arrays'[s] = arrays[s]
               \/ /\ Len(arrays'[s]) = Len(arrays[s]) + 1
                  /\ SubSeq(arrays'[s], 1, Len(arrays[s])) = arrays[s]
                  /\ out'.sid = s
                  /\ LET m == arrays'[s][Len(arrays'[s])] IN
                     \/ /\ m.role = "user"
                        /\ out'.op = "message"
                        /\ out'.input = "message"
                     \/ /\ m.role = "assistant"
                        /\ out'.op = "completion"
                        /\ out'.input \in {"terminal", "toolCalls"}
                     \/ /\ m.role = "tool"
                        /\ out'.op = "sql" ]_vars

=============================================================================
